---- MODULE Spec2Model ----
(***************************************************************************)
(* cbpro: the REST request builder (builder.rs), its request              *)
(* authentication (QueryBuilder::auth_request) and the cursor pagination  *)
(* streams (paging.rs: Paginated, stream.rs: Paginate), the WebSocket      *)
(* feed session (websocket.rs: WebSocketFeed) and the errors they return   *)
(* (error.rs: Error, CBError, WsCloseError).                               *)
(*                                                                         *)
(* Strings of the wire (paths, query strings, header values, the signed    *)
(* message) are TLA+ strings built with \o.  A cursor header received from  *)
(* the exchange is a sequence of one-character strings, so that the         *)
(* engine's parse of it can be computed.                                    *)
(***************************************************************************)
EXTENDS Integers, Sequences, FiniteSets, TLC

\* ------------------------------------------------------------------ bounds

\* Requests one pagination engine may issue before the environment answers
\* the last one without a cursor header.
MaxPages == 3
\* Ticks of the clock after the first reading.
MaxClock == 1
\* Error elements one sequence may yield.
MaxErrors == 2

\* Incoming frames the transport holds for the session to read.
MaxInbox == 2
\* The calls that can hold one feed session at a time.
MaxCalls == 2

\* The first clock reading (Unix seconds).
Epoch == 1000000000

\* The limit and cursor values a caller passes to the builder.
CursorVals == {1, 2}

\* ------------------------------------------------------------------ options

SomeOf(x) == [some |-> TRUE, v |-> x]
NoInt == [some |-> FALSE, v |-> 0]
NoStr == [some |-> FALSE, v |-> ""]
NoTxt == [some |-> FALSE, v |-> <<>>]
NoPairs == [some |-> FALSE, v |-> <<>>]

\* ------------------------------------------------------------------ text

Digit(d) ==
    CASE d = 0 -> "0" [] d = 1 -> "1" [] d = 2 -> "2" [] d = 3 -> "3"
      [] d = 4 -> "4" [] d = 5 -> "5" [] d = 6 -> "6" [] d = 7 -> "7"
      [] d = 8 -> "8" [] d = 9 -> "9"

RECURSIVE ToStr(_)
\* i32 / i64 to_string: canonical decimal.
ToStr(n) ==
    IF n < 0 THEN "-" \o ToStr(-n)
    ELSE IF n < 10 THEN Digit(n)
    ELSE ToStr(n \div 10) \o Digit(n % 10)

\* A byte no header value may hold as visible ASCII (HeaderValue::to_str fails).
NonAscii == "\\xE9"

DigitChars == {"0", "1", "2", "3", "4", "5", "6", "7", "8", "9"}

DigitVal(c) ==
    CASE c = "0" -> 0 [] c = "1" -> 1 [] c = "2" -> 2 [] c = "3" -> 3
      [] c = "4" -> 4 [] c = "5" -> 5 [] c = "6" -> 6 [] c = "7" -> 7
      [] c = "8" -> 8 [] c = "9" -> 9

RECURSIVE DigitsVal(_, _)
DigitsVal(cs, acc) ==
    IF cs = <<>> THEN acc ELSE DigitsVal(Tail(cs), 10 * acc + DigitVal(Head(cs)))

I32Max == 2147483647

\* HeaderValue::to_str: Ok only when every byte is visible ASCII.
to_str(cs) ==
    IF \E i \in 1..Len(cs) : cs[i] = NonAscii THEN NoTxt ELSE SomeOf(cs)

\* str::parse::<i32>: an optional sign, then one or more decimal digits, in range.
parse_i32(cs) ==
    LET signed == Len(cs) > 0 /\ cs[1] \in {"+", "-"}
        ds == IF signed THEN Tail(cs) ELSE cs
        ok == Len(ds) > 0 /\ \A i \in 1..Len(ds) : ds[i] \in DigitChars
        mag == IF ok THEN DigitsVal(ds, 0) ELSE 0
        val == IF signed /\ cs[1] = "-" THEN -mag ELSE mag
    IN  IF ok /\ val <= I32Max /\ val >= -I32Max - 1 THEN SomeOf(val) ELSE NoInt

RECURSIVE Str(_)
\* The characters of a header value as one string.
Str(cs) == IF cs = <<>> THEN "" ELSE Head(cs) \o Str(Tail(cs))

\* Cursor header values the exchange may send: a decimal cursor, a decimal
\* cursor with a leading zero, a value that is no decimal, a value that is
\* no visible ASCII.
HeaderTexts == {<<"3">>, <<"0", "4">>, <<"x">>, <<NonAscii>>}

OptHeader == {NoTxt} \cup {SomeOf(t) : t \in HeaderTexts}

\* ------------------------------------------------------------------ CBParams

\* The query state: the fields of CBParams that the endpoint sets at
\* construction (fixed: <<name, urlencoded value, JSON value>> in the order of
\* the struct's fields, all of them declared before limit) and the three
\* pagination fields.
CBParams_new == [fixed |-> <<>>, limit |-> NoInt, before |-> NoInt, after |-> NoInt]

\* A set_limit that keeps a limit already set.
set_limit_keeps_first(q, value) ==
    IF q.limit.some THEN q ELSE [q EXCEPT !.limit = SomeOf(value)]

set_limit(q, value) == [q EXCEPT !.limit = SomeOf(value)]

\* A set_before that leaves after as it was.
set_before_keeps_after(q, value) == [q EXCEPT !.before = SomeOf(value)]

set_before(q, value) == [q EXCEPT !.before = SomeOf(value), !.after = NoInt]

set_after(q, value) == [q EXCEPT !.after = SomeOf(value), !.before = NoInt]

\* serde_urlencoded over CBParams: one pair per field that is Some, in field
\* order; a None field is skipped.
OptPair(name, o) == IF o.some THEN <<(<<name, ToStr(o.v)>>)>> ELSE <<>>

UrlPairs(q) ==
    [i \in 1..Len(q.fixed) |-> <<q.fixed[i][1], q.fixed[i][2]>>]
        \o OptPair("limit", q.limit)
        \o OptPair("before", q.before)
        \o OptPair("after", q.after)

\* serde_json over CBParams: every field, a None field as null.
OptJson(name, o) == "\"" \o name \o "\":" \o (IF o.some THEN ToStr(o.v) ELSE "null")

RECURSIVE FixedJson(_)
FixedJson(fs) ==
    IF fs = <<>> THEN ""
    ELSE "\"" \o Head(fs)[1] \o "\":" \o Head(fs)[3] \o "," \o FixedJson(Tail(fs))

to_vec(q) ==
    "{" \o FixedJson(q.fixed) \o OptJson("limit", q.limit) \o ","
        \o OptJson("before", q.before) \o "," \o OptJson("after", q.after) \o "}"

\* ------------------------------------------------------------------ requests

AuthHeaders ==
    {"CB-ACCESS-KEY", "CB-ACCESS-PASSPHRASE", "CB-ACCESS-TIMESTAMP", "CB-ACCESS-SIGN"}

HeaderNames == AuthHeaders \cup {"User-Agent", "content-type"}

NoHeaders == [h \in HeaderNames |-> NoStr]

\* HeaderMap::insert: the value replaces any earlier value of that name.
insert(headers, name, value) == [headers EXCEPT ![name] = SomeOf(value)]

\* A reqwest::Request: method, URL path, URL query (None, or the pairs of
\* the query string), body and headers.
NewRequest(method, path, pairs) ==
    [method |-> method, path |-> path,
     query |-> IF pairs = <<>> THEN NoPairs ELSE SomeOf(pairs),
     body |-> NoStr, headers |-> NoHeaders]

NoRequest == NewRequest("", "", <<>>)

RECURSIVE QueryString(_)
\* Url::query of a URL whose query holds these pairs.
QueryString(pairs) ==
    IF pairs = <<>> THEN ""
    ELSE Head(pairs)[1] \o "=" \o Head(pairs)[2]
            \o (IF Len(pairs) > 1 THEN "&" ELSE "") \o QueryString(Tail(pairs))

\* Url::set_query(None).
set_query_none(req) == [req EXCEPT !.query = NoPairs]

\* An apply_query that replaces the URL's query by the serialized pairs.
apply_query_replaces(req, q) ==
    [req EXCEPT !.query = IF UrlPairs(q) = <<>> THEN NoPairs ELSE SomeOf(UrlPairs(q))]

\* query_pairs_mut appends the serialized pairs to the URL's query (creating
\* an empty one when the URL has none); a query left empty is removed.
apply_query(req, q) ==
    LET pairs == (IF req.query.some THEN req.query.v ELSE <<>>) \o UrlPairs(q)
    IN  [req EXCEPT !.query = IF pairs = <<>> THEN NoPairs ELSE SomeOf(pairs)]

apply_json(req, q) ==
    [req EXCEPT !.headers = insert(@, "content-type", "application/json"),
                !.body = SomeOf(to_vec(q))]

\* ------------------------------------------------------------------ signing

\* client::Auth, or None for the public client.
Auth(key, pass, secret) == [some |-> TRUE, key |-> key, pass |-> pass, secret |-> secret]
NoAuth == [some |-> FALSE, key |-> "", pass |-> "", secret |-> ""]

\* An API key and a passphrase holding a line feed: no valid header value.
BadKey == "k\n"
BadPass == "p\n"

\* str::parse::<HeaderValue>: Err for a value holding a control character.
parse_header(s) == IF s \in {BadKey, BadPass} THEN NoStr ELSE SomeOf(s)

\* base64::decode over the secrets of the model: "cw==" is base64 of "s",
\* "!" is no base64.
base64_decode(s) == IF s = "cw==" THEN SomeOf("s") ELSE NoStr

\* HMAC-SHA256 and base64::encode, kept symbolic: each is injective in its
\* arguments.
hmac_sha256(key, message) == "hmac(" \o key \o "," \o message \o ")"
base64_encode(bytes) == "base64(" \o bytes \o ")"

\* A signed path that leaves the query string out.
SignedPath_without_query(req) == req.path

\* The path the signed message holds: the URL path, then "?" and the query
\* string when the URL has one.
SignedPath(req) ==
    IF req.query.some THEN req.path \o "?" \o QueryString(req.query.v) ELSE req.path

\* The canonical message of a request at a timestamp.
Message(req, timestamp) ==
    IF req.body.some
    THEN timestamp \o req.method \o SignedPath(req) \o req.body.v
    ELSE timestamp \o req.method \o SignedPath(req)

\* What a call returns: kind "Ok" with the request, kind "Err" with the error
\* kind, or kind "panic" (an unwrap of an Err: the thread unwinds).
BuiltOk(req) == [kind |-> "Ok", err |-> "", request |-> req]
BuiltErr(e) == [kind |-> "Err", err |-> e, request |-> NoRequest]
BuiltPanic == [kind |-> "panic", err |-> "", request |-> NoRequest]
NotBuilt == [kind |-> "none", err |-> "", request |-> NoRequest]

\* Header inserts whose timestamp header comes from a later reading of the
\* clock than the one that was signed.
InsertAuth_second_reading(headers, key, pass, timestamp, signature) ==
    [headers EXCEPT !["CB-ACCESS-KEY"] = [some |-> TRUE, v |-> key],
                    !["CB-ACCESS-PASSPHRASE"] = [some |-> TRUE, v |-> pass],
                    !["CB-ACCESS-TIMESTAMP"] = [some |-> TRUE, v |-> timestamp \o "1"],
                    !["CB-ACCESS-SIGN"] = [some |-> TRUE, v |-> signature]]

\* Header inserts that leave the passphrase out.
InsertAuth_no_passphrase(headers, key, pass, timestamp, signature) ==
    insert(insert(insert(headers,
        "CB-ACCESS-KEY", key),
        "CB-ACCESS-TIMESTAMP", timestamp),
        "CB-ACCESS-SIGN", signature)

\* The four header inserts of auth_request.
InsertAuth(headers, key, pass, timestamp, signature) ==
    insert(insert(insert(insert(headers,
        "CB-ACCESS-KEY", key),
        "CB-ACCESS-PASSPHRASE", pass),
        "CB-ACCESS-TIMESTAMP", timestamp),
        "CB-ACCESS-SIGN", signature)

\* An auth_request that signs the stored request and serializes the
\* parameters into it afterwards.
auth_request_signs_first(b, clock) ==
    LET serialized ==
            IF b.request.method = "POST"
            THEN apply_json(b.request, b.query)
            ELSE apply_query(b.request, b.query)
        timestamp == ToStr(clock)
        message == Message(b.request, timestamp)
        hmac_key == base64_decode(b.auth.secret)
        b64_signature == base64_encode(hmac_sha256(hmac_key.v, message))
        user_agent(r) == [r EXCEPT !.headers = insert(@, "User-Agent", "cbpro")]
    IN  IF ~b.auth.some THEN BuiltOk(user_agent(serialized))
        ELSE IF ~hmac_key.some THEN BuiltErr("Base64")
        ELSE IF ~parse_header(b.auth.key).some THEN BuiltPanic
        ELSE IF ~parse_header(b.auth.pass).some THEN BuiltPanic
        ELSE BuiltOk(user_agent(
                [serialized EXCEPT !.headers =
                    InsertAuth(@, b.auth.key, b.auth.pass, timestamp, b64_signature)]))

\* QueryBuilder::auth_request on a builder b = [request, query, auth] with the
\* clock reading clock.
auth_request(b, clock) ==
    LET serialized ==
            IF b.request.method = "POST"
            THEN apply_json(b.request, b.query)
            ELSE apply_query(b.request, b.query)
        timestamp == ToStr(clock)
        message == Message(serialized, timestamp)
        hmac_key == base64_decode(b.auth.secret)
        b64_signature == base64_encode(hmac_sha256(hmac_key.v, message))
        user_agent(r) == [r EXCEPT !.headers = insert(@, "User-Agent", "cbpro")]
    IN  IF ~b.auth.some THEN BuiltOk(user_agent(serialized))
        ELSE IF ~hmac_key.some THEN BuiltErr("Base64")
        ELSE IF ~parse_header(b.auth.key).some THEN BuiltPanic
        ELSE IF ~parse_header(b.auth.pass).some THEN BuiltPanic
        ELSE BuiltOk(user_agent(
                [serialized EXCEPT !.headers =
                    InsertAuth(@, b.auth.key, b.auth.pass, timestamp, b64_signature)]))

\* An auth_request that serializes and signs the stored request in place.
after_auth_request_in_place(b, r) ==
    IF r.kind = "Ok" THEN [b EXCEPT !.request = r.request] ELSE b

\* The builder after auth_request(&self) has returned r: the call works on a
\* clone of the stored request and borrows the query state and the
\* credentials.
after_auth_request(b, r) == b

\* ------------------------------------------------------------------ responses

\* What the transport resolves an executed request with.
Statuses == {200, 400}

\* StatusCode::is_success.
is_success(status) == status \in 200..299

\* The body the exchange sends with a status: a page, or an error message.
Body(status) == IF is_success(status) THEN "[]" ELSE "{\"message\":\"NotFound\"}"

Responses ==
    {[after |-> a, before |-> b, status |-> s, body |-> Body(s)] :
        a \in OptHeader, b \in OptHeader, s \in Statuses}

NoResponse == [of |-> 0, after |-> NoTxt, before |-> NoTxt, status |-> 0, body |-> ""]

\* ------------------------------------------------------------------ error.rs

\* The source of an Error: none, a CBError of status code and message, or a
\* WsCloseError of close code and reason.
NoSource == [type |-> "none", code |-> 0, text |-> ""]

CBError_new(code, message) == [type |-> "CBError", code |-> code, text |-> message]

WsCloseError_new(code, reason) == [type |-> "WsCloseError", code |-> code, text |-> reason]

\* impl From<CBError> for Error and impl From<WsCloseError> for Error: the
\* Kind of the Error made from a source.
Error_from(source) ==
    CASE source.type = "CBError" -> "Coinbase"
      [] source.type = "WsCloseError" -> "Coinbase"

\* The outcome of polling the in-flight future: not ready, a transport
\* error, or a response.
PendingOutcome == [kind |-> "Pending", res |-> NoResponse]

Outcomes ==
    {PendingOutcome, [kind |-> "Err", res |-> NoResponse]}
        \cup {[kind |-> "Ok", res |-> [of |-> 0] @@ r] : r \in Responses}

\* Polling a future again after it returned Ready is outside the Future
\* contract: it may panic, stay pending or return an error.
Repolls == {"panic", "Pending", "Err"}

\* What a call hands back to its caller; res is the response the call took
\* from the transport, which the caller receives when kind is "Ok".  err and
\* source are the Kind and the source of the Error the caller receives; page
\* is the item the stream of pages makes of a poll's item.
Ret(call, kind, err, res) ==
    [call |-> call, kind |-> kind, err |-> err, res |-> res,
     source |-> NoSource, page |-> "none"]
NoRet == Ret("none", "none", "", NoResponse)

\* The Err a call returns for a source: error.into().
Fail(call, source, res) ==
    [Ret(call, "Err", Error_from(source), res) EXCEPT !.source = source]

\* Client::execute: the future of a request, not yet resolved; id numbers the
\* requests in the order they are executed.
execute(req, id) == [req |-> req, id |-> id, done |-> FALSE]
Resolved(fut) == [fut EXCEPT !.done = TRUE]
NoFuture == [req |-> NoRequest, id |-> 0, done |-> TRUE]

\* The response a future resolves with: the transport's response to its request.
Answer(fut, res) == [res EXCEPT !.of = fut.id]

\* ------------------------------------------------------------------ Paginated

\* A Paginated::new that leaves the first request to the first poll.
Paginated_new_lazy(request, query, id) ==
    [in_flight |-> [req |-> request, id |-> 0, done |-> TRUE],
     request |-> request, query |-> query, state |-> "Start"]

\* Paginated::new: the first request is executed and its future stored; id
\* is the number of this request.
Paginated_new(request, query, id) ==
    [in_flight |-> execute(request, id),
     request |-> request, query |-> query, state |-> "Start"]

\* The fields of a Paginated beside client and in_flight (in_flight is the
\* variable of that name).
Fields(p) == [request |-> p.request, query |-> p.query, state |-> p.state]

NoPaginated == [request |-> NoRequest, query |-> CBParams_new, state |-> "Stop"]

Step(p, fut, ret, issued) == [paginated |-> p, in_flight |-> fut, ret |-> ret, issued |-> issued]

\* The request of the next page: the stored request with its query string
\* cleared and the query state applied.
NextRequest(p, q) == apply_query(set_query_none(p.request), q)

\* A Follow that executes the next request before it reads the header.
Follow_eager(p, fut, res, dir) ==
    LET header == IF dir = "after" THEN res.after.v ELSE res.before.v
        text == to_str(header)
        value == parse_i32(text.v)
        q == IF ~text.some \/ ~value.some THEN p.query
             ELSE IF dir = "after" THEN set_after(p.query, value.v)
             ELSE set_before(p.query, value.v)
    IN  [paginated |-> [p EXCEPT !.query = q],
         in_flight |-> [req |-> apply_query(set_query_none(p.request), q),
                        id |-> fut.id + 1, done |-> FALSE],
         ret |-> Ret("poll_next",
                     IF ~text.some THEN "Err" ELSE IF ~value.some THEN "panic" ELSE "Ok",
                     IF ~text.some THEN "Reqwest" ELSE "",
                     [res EXCEPT !.of = fut.id]),
         issued |-> 1]

\* One branch of poll_next that follows a cursor header: dir is "after" (the
\* value of cb-after, set_after) or "before" (cb-before, set_before).
Follow(p, fut, res, dir) ==
    LET header == IF dir = "after" THEN res.after.v ELSE res.before.v
        text == to_str(header)
        value == parse_i32(text.v)
        q == IF dir = "after" THEN set_after(p.query, value.v)
                              ELSE set_before(p.query, value.v)
    IN  IF ~text.some
        THEN Step(p, Resolved(fut),
                  Ret("poll_next", "Err", "Reqwest", Answer(fut, res)), 0)
        ELSE IF ~value.some
        THEN Step(p, Resolved(fut), Ret("poll_next", "panic", "", Answer(fut, res)), 0)
        ELSE Step([p EXCEPT !.query = q], execute(NextRequest(p, q), fut.id + 1),
                  Ret("poll_next", "Ok", "", Answer(fut, res)), 1)

\* A choice that follows cb-after whatever the query state holds.
Branch_after_first(res, before) ==
    IF res.after.some THEN "after"
    ELSE IF res.before.some THEN "before"
    ELSE "stop"

\* The choice of poll_next's if / else if / else over a response's cursor
\* headers: "after" when cb-after is present and the query state holds no
\* before, else "before" when cb-before is present, else "stop".
Branch(res, before) ==
    IF res.after.some /\ ~before.some THEN "after"
    ELSE IF res.before.some THEN "before"
    ELSE "stop"

\* The State::Start arm of Paginated::poll_next: in_flight is polled; again
\* is what a future polled after completion does.
poll_Start(p, fut, out, again) ==
    IF fut.done
    THEN Step(p, fut,
              Ret("poll_next", again, IF again = "Err" THEN "Client" ELSE "", NoResponse), 0)
    ELSE IF out.kind = "Pending"
    THEN Step(p, fut, Ret("poll_next", "Pending", "", NoResponse), 0)
    ELSE IF out.kind = "Err"
    THEN Step(p, Resolved(fut), Ret("poll_next", "Err", "Client", NoResponse), 0)
    ELSE IF Branch(out.res, p.query.before) = "stop"
    THEN Step([p EXCEPT !.state = "Stop"], Resolved(fut),
              Ret("poll_next", "Ok", "", Answer(fut, out.res)), 0)
    ELSE Follow(p, fut, out.res, Branch(out.res, p.query.before))

\* A poll_next that polls in_flight whatever the state is.
poll_next_any_state(p, fut, out, again) == poll_Start(p, fut, out, again)

\* Paginated::poll_next (paging.rs) on the struct p with the in-flight future
\* fut, when the transport's outcome is out.
poll_next(p, fut, out, again) ==
    IF p.state = "Stop"
    THEN Step(p, fut, Ret("poll_next", "None", "", NoResponse), 0)
    ELSE poll_Start(p, fut, out, again)

\* A drop that hands the sequence to a task which requests the next page.
Paginated_drop_detached(p, fut) ==
    Step(NoPaginated, execute(NextRequest(p, p.query), fut.id + 1),
         Ret("drop", "Dropped", "", NoResponse), 1)

\* The consumer drops the sequence: Paginated has no Drop of its own, its
\* fields are dropped, the in-flight future among them, and no code runs.
Paginated_drop(p, fut) ==
    Step(NoPaginated, NoFuture, Ret("drop", "Dropped", "", NoResponse), 0)

\* Paginated::pages: the closure applied to each item of the sequence.  An
\* error item passes through (res?); a response of a success status is
\* decoded, any other becomes a CBError of its status and body.
pages(item) ==
    IF item.kind # "Ok" THEN [item EXCEPT !.page = item.kind]
    ELSE IF is_success(item.res.status) THEN [item EXCEPT !.page = "Ok"]
    ELSE [Fail(item.call, CBError_new(item.res.status, item.res.body), item.res)
            EXCEPT !.kind = "Ok", !.page = "Err"]

\* QueryBuilder::text from the response on: the body of a response of a
\* success status, else a CBError of its status and body.
text_response(fut, out) ==
    IF out.kind = "Err" THEN Ret("text", "Err", "Reqwest", NoResponse)
    ELSE IF is_success(out.res.status) THEN Ret("text", "Ok", "", Answer(fut, out.res))
    ELSE Fail("text", CBError_new(out.res.status, out.res.body), Answer(fut, out.res))

\* ------------------------------------------------------------------ stream.rs

\* PaginateBuilder::new: params is [("limit", None), ("before", None),
\* ("after", None)], kept here as a record of the three values.
PaginateBuilder_new(path) ==
    [url |-> NewRequest("GET", path, <<>>),
     params |-> [limit |-> NoStr, before |-> NoStr, after |-> NoStr],
     state |-> "Start"]

PaginateBuilder_limit(params, value) == [params EXCEPT !.limit = SomeOf(value)]

PaginateBuilder_before(params, value) ==
    [params EXCEPT !.limit = NoStr, !.before = SomeOf(value), !.after = NoStr]

PaginateBuilder_after(params, value) ==
    [params EXCEPT !.after = SomeOf(value), !.before = NoStr]

StrPair(name, o) == IF o.some THEN <<(<<name, o.v>>)>> ELSE <<>>

\* RequestBuilder::query: the pairs are appended to the URL's query.
with_query(req, pairs) ==
    LET all == (IF req.query.some THEN req.query.v ELSE <<>>) \o pairs
    IN  [req EXCEPT !.query = IF all = <<>> THEN NoPairs ELSE SomeOf(all)]

\* The request Paginate::new sends: every parameter that is Some.
Paginate_new_request(s) ==
    with_query(s.url, StrPair("limit", s.params.limit)
                        \o StrPair("before", s.params.before)
                        \o StrPair("after", s.params.after))

\* One branch of stream.rs poll_next that follows a cursor header.
Paginate_follow(s, fut, res, dir) ==
    LET header == IF dir = "after" THEN res.after.v ELSE res.before.v
        text == to_str(header)
        query == <<(<<dir, Str(text.v)>>)>> \o StrPair("limit", s.params.limit)
    IN  IF ~text.some
        THEN Step(s, Resolved(fut), Ret("poll_next", "panic", "", Answer(fut, res)), 0)
        ELSE Step(s, execute(with_query(s.url, query), fut.id + 1),
                  Ret("poll_next", "Ok", "", Answer(fut, res)), 1)

\* Paginate::poll_next (stream.rs) on the struct s = [url, params, state].
Paginate_poll_next(s, fut, out, again) ==
    IF s.state = "Stop"
    THEN Step(s, fut, Ret("poll_next", "None", "", NoResponse), 0)
    ELSE IF fut.done
    THEN Step(s, fut,
              Ret("poll_next", again, IF again = "Err" THEN "Reqwest" ELSE "", NoResponse), 0)
    ELSE IF out.kind = "Pending"
    THEN Step(s, fut, Ret("poll_next", "Pending", "", NoResponse), 0)
    ELSE IF out.kind = "Err"
    THEN Step(s, Resolved(fut), Ret("poll_next", "Err", "Reqwest", NoResponse), 0)
    ELSE IF Branch(out.res, s.params.before) = "stop"
    THEN Step([s EXCEPT !.state = "Stop"], Resolved(fut),
              Ret("poll_next", "Ok", "", Answer(fut, out.res)), 0)
    ELSE Paginate_follow(s, fut, out.res, Branch(out.res, s.params.before))

\* Paginate::json (stream.rs): every response is decoded (x?.json()), an
\* error item passes through.
Paginate_json(item) == [item EXCEPT !.page = item.kind]

\* ------------------------------------------------------------------ websocket.rs

\* A payload that is no UTF-8 (String::from_utf8 fails).
BadUtf8 == "\\xFF"

Payloads == {"hb", BadUtf8}

\* tungstenite::Message: Text, Binary, Ping and Pong hold data; Close holds
\* an optional frame (framed) of code and reason.
Frame(op, data) == [op |-> op, data |-> data, framed |-> FALSE, code |-> 0, json |-> {}]

CloseFrame(framed, code, reason) ==
    [op |-> "Close", data |-> reason, framed |-> framed, code |-> code, json |-> {}]

\* CloseCode::Normal and CloseCode::Abnormal as u16.
Normal == 1000
Abnormal == 1006

\* The frames the exchange sends to a session; its close frames are of the
\* codes 1000 (normal) and 1001 (going away), or hold no frame.
Incoming ==
    {Frame("Text", "{\"type\":\"ticker\"}"), Frame("Binary", "hb")}
        \cup {Frame(op, data) : op \in {"Ping", "Pong"}, data \in Payloads}
        \cup {CloseFrame(TRUE, Normal, "bye"), CloseFrame(TRUE, 1001, "maintenance"),
              CloseFrame(FALSE, 0, "")}

\* Message::into_text: the text itself, or the data as UTF-8.
into_text(f) ==
    IF f.op \in {"Binary", "Ping", "Pong"} /\ f.data = BadUtf8 THEN NoStr ELSE SomeOf(f.data)

\* serde_json::json!({ name: text }) as a string.
Wrapper(name, text) == "{\"" \o name \o "\":\"" \o text \o "\"}"

\* The four fields of the auth map of subscribe.
AuthFields == {"key", "passphrase", "timestamp", "signature"}

\* An auth map whose timestamp and signature were computed once, at the
\* first reading of the clock.
AuthMap_of_first_reading(auth, hmac_key, clock) ==
    {<<"key", auth.key>>, <<"passphrase", auth.pass>>,
     <<"timestamp", ToStr(Epoch)>>,
     <<"signature",
       base64_encode(hmac_sha256(hmac_key, ToStr(Epoch) \o "GET" \o "/users/self/verify"))>>}

\* The HashMap subscribe fills for a session with credentials, as its set of
\* entries; hmac_key is the decoded secret.
AuthMap(auth, hmac_key, clock) ==
    LET timestamp == ToStr(clock)
        message == timestamp \o "GET" \o "/users/self/verify"
        b64_signature == base64_encode(hmac_sha256(hmac_key, message))
    IN  {<<"key", auth.key>>, <<"passphrase", auth.pass>>,
         <<"timestamp", timestamp>>, <<"signature", b64_signature>>}

\* A flatten that nests the map under one field of its own.
flatten_nested(entries) == IF entries = {} THEN {} ELSE {<<"auth", "{..}">>}

\* #[serde(flatten)] over Option<HashMap>: the entries of the map become
\* fields of the enclosing object, None adds no field.
flatten(entries) == entries

\* serde_json::to_string of a SubscribeMessage, sent as a text frame: the
\* JSON object as the set of its fields (the flattened entries follow the
\* three named fields in the map's iteration order).
SubscribeMessage(type_, entries) ==
    [op |-> "Text", data |-> "", framed |-> FALSE, code |-> 0,
     json |-> {<<"type", type_>>, <<"product_ids", "[\"BTC-USD\"]">>,
               <<"channels", "[\"level2\"]">>} \cup flatten(entries)]

\* WebSocketFeed after connect (auth None) or connect_auth: the transport is
\* up, holds the frames received and not yet read (inbox); wrote is what the
\* last call wrote to the transport and msg the text the last read returned.
\* calls are the calls that hold the session and have not returned; owned is
\* whether the caller still owns the session (close takes it by value).
WebSocketFeed(auth) ==
    [auth |-> auth, up |-> TRUE, inbox |-> <<>>, wrote |-> <<>>, msg |-> NoStr,
     calls |-> <<>>, owned |-> TRUE]

NoFeed == [WebSocketFeed(NoAuth) EXCEPT !.up = FALSE, !.owned = FALSE]

\* A session behind a shared handle: a call can begin while another holds it.
Exclusive_shared(f) == TRUE

\* The receiver of text, subscribe and unsubscribe is &mut self and that of
\* close is self: a call can begin only when no other call holds the session.
Exclusive(f) == f.calls = <<>>

\* What a call of the session does: the session after it and what it
\* returns, with the source of the error if it is one of error.rs.
Did(f, kind, err) == [feed |-> f, kind |-> kind, err |-> err, source |-> NoSource]

\* SinkExt::send of one frame: written when the transport is up, an error
\* of the transport otherwise.
send(f, frame, then) ==
    IF f.up THEN Did([f EXCEPT !.wrote = <<frame>>, !.msg = then], "Ok", "")
    ELSE Did([f EXCEPT !.wrote = <<>>, !.msg = NoStr], "Err", "Tungstenite")

\* A subscribe that waits for the exchange's answer and takes it from the
\* transport.
subscribe_awaits_ack(f, clock) ==
    LET hmac_key == base64_decode(f.auth.secret)
        entries == IF f.auth.some /\ hmac_key.some
                   THEN AuthMap(f.auth, hmac_key.v, clock) ELSE {}
        sent == send(f, SubscribeMessage("subscribe", entries), NoStr)
    IN  IF f.auth.some /\ ~hmac_key.some
        THEN Did([f EXCEPT !.wrote = <<>>, !.msg = NoStr], "panic", "")
        ELSE IF sent.kind = "Ok" /\ f.inbox # <<>>
        THEN Did([sent.feed EXCEPT !.inbox = Tail(@)], "Ok", "")
        ELSE sent

\* WebSocketFeed::subscribe at the clock reading clock.
subscribe(f, clock) ==
    LET hmac_key == base64_decode(f.auth.secret)
    IN  IF ~f.auth.some THEN send(f, SubscribeMessage("subscribe", {}), NoStr)
        ELSE IF ~hmac_key.some
        THEN Did([f EXCEPT !.wrote = <<>>, !.msg = NoStr], "panic", "")
        ELSE send(f, SubscribeMessage("subscribe", AuthMap(f.auth, hmac_key.v, clock)), NoStr)

\* WebSocketFeed::unsubscribe.
unsubscribe(f) == send(f, SubscribeMessage("unsubscribe", {}), NoStr)

\* The Ping and Pong arms of WebSocketFeed::text: the answer is sent, then
\* the frame's data is wrapped.
answer(f, frame, reply, name) ==
    LET sent == send(f, Frame(reply, frame.data), NoStr)
        text == into_text(frame)
    IN  IF sent.kind # "Ok" THEN sent
        ELSE IF ~text.some
        THEN Did(sent.feed, "Err", "Tungstenite")
        ELSE Did([sent.feed EXCEPT !.msg = SomeOf(Wrapper(name, text.v))], "Ok", "")

\* A close error that reports every close as abnormal.
close_error_abnormal(frame) ==
    [type |-> "WsCloseError", code |-> Abnormal, text |-> frame.data]

\* A close error that reports a message without a frame as a normal closure.
close_error_no_reason(frame) ==
    IF frame.framed THEN WsCloseError_new(frame.code, frame.data)
    ELSE WsCloseError_new(Normal, "")

\* The Close arms of WebSocketFeed::text: the WsCloseError of the frame's
\* code and reason, or of CloseCode::Abnormal when the message holds no frame.
close_error(frame) ==
    IF frame.framed THEN WsCloseError_new(frame.code, frame.data)
    ELSE WsCloseError_new(Abnormal, "Close message with no frame received")

\* WebSocketFeed::text when try_next yields the frame at the head of inbox.
ws_text_of(f, frame) ==
    LET rest == [f EXCEPT !.inbox = Tail(f.inbox), !.wrote = <<>>, !.msg = NoStr]
        text == into_text(frame)
    IN  CASE frame.op = "Text" -> Did([rest EXCEPT !.msg = SomeOf(frame.data)], "Ok", "")
          [] frame.op = "Ping" -> answer(rest, frame, "Pong", "ping")
          [] frame.op = "Pong" -> answer(rest, frame, "Ping", "pong")
          [] frame.op = "Binary" ->
                IF text.some THEN Did([rest EXCEPT !.msg = text], "Ok", "")
                ELSE Did(rest, "Err", "Tungstenite")
          [] frame.op = "Close" -> [Did(rest, "Err", Error_from(close_error(frame)))
                                        EXCEPT !.source = close_error(frame)]

\* A close that borrows the session: the frame is sent and the session
\* stays with the caller.
close_by_reference(f) ==
    IF f.up THEN Did([f EXCEPT !.wrote = <<CloseFrame(TRUE, Normal, "closed manually")>>,
                               !.msg = NoStr], "Ok", "")
    ELSE Did([f EXCEPT !.wrote = <<>>, !.msg = NoStr], "Err", "Tungstenite")

\* WebSocketFeed::close: the session is taken by value, one close frame of
\* CloseCode::Normal is sent on its transport, and the session is dropped
\* with the transport and what it had buffered.
close(f) ==
    LET gone == [f EXCEPT !.up = FALSE, !.inbox = <<>>, !.msg = NoStr, !.owned = FALSE]
    IN  IF f.up
        THEN Did([gone EXCEPT !.wrote = <<CloseFrame(TRUE, Normal, "closed manually")>>],
                 "Ok", "")
        ELSE Did([gone EXCEPT !.wrote = <<>>], "Err", "Tungstenite")

\* ------------------------------------------------------------------ state

VARIABLES
    variant,      \* "builder.rs" (QueryBuilder, paging.rs), "stream.rs" or
                  \* "websocket.rs"
    builder,      \* the QueryBuilder: [request, query, auth, options]
    phase,        \* "Builder", "Text", "Paging", "Dropped", "Done", "Failed", "Feed"
    now,          \* the clock (Utc::now().timestamp())
    built,        \* what the first auth_request call on the builder returned
    rebuilt,      \* what a second auth_request call on the builder returned
    feed,         \* the WebSocketFeed: [auth, up, inbox, wrote, msg]
    in_flight,    \* the future of the request last executed
    paginated,    \* the Paginated struct: [request, query, state]
    stream,       \* stream.rs PaginateBuilder, then Paginate: [url, params, state]
    ret,          \* what the last call returned to the caller
    nRequests,    \* requests executed so far
    nResponses,   \* responses the sequence has yielded
    nErrors,      \* error elements the sequence has yielded
    pattern,      \* the headers of the responses resolved so far, summarized
    query0,       \* the query state the sequence was constructed with
    aborted,      \* a panic has unwound the caller
    setting       \* the setter last called on the builder: [name, value]

vars == <<variant, builder, phase, now, built, rebuilt, feed, in_flight, paginated, stream, ret,
          nRequests, nResponses, nErrors, pattern, query0, aborted, setting>>

\* ------------------------------------------------------------------ endpoints

Auths ==
    {Auth("k", "p", "cw=="), Auth("k", "p", "!"),
     Auth(BadKey, "p", "cw=="), Auth("k", BadPass, "cw==")}

QueryBuilder_new(request, query, auth, options) ==
    [request |-> request, query |-> query, auth |-> auth, options |-> options]

\* PublicClient::get_trades.
get_trades ==
    QueryBuilder_new(NewRequest("GET", "/products/BTC-USD/trades", <<>>),
                     CBParams_new, NoAuth, "PageOptions")

\* AuthenticatedClient::list_orders: the status filters go on the URL.
list_orders(status, auth) ==
    QueryBuilder_new(
        NewRequest("GET", "/orders", [i \in 1..Len(status) |-> <<"status", status[i]>>]),
        CBParams_new, auth, "ListOrderOptions")

\* AuthenticatedClient::list_accounts.
list_accounts(auth) ==
    QueryBuilder_new(NewRequest("GET", "/accounts", <<>>), CBParams_new, auth, "NoOptions")

\* AuthenticatedClient::place_limit_order("BTC-USD", "buy", 7000.0, 10.0).
place_limit_order(auth) ==
    QueryBuilder_new(
        NewRequest("POST", "/orders", <<>>),
        [CBParams_new EXCEPT !.fixed =
            << <<"type", "limit", "\"limit\"">>, <<"side", "buy", "\"buy\"">>,
               <<"product_id", "BTC-USD", "\"BTC-USD\"">>,
               <<"price", "7000.0", "7000.0">>, <<"size", "10.0", "10.0">> >>],
        auth, "LimitOrderOptions")

Endpoints ==
    {get_trades}
        \cup {list_orders(s, a) : s \in {<<>>, <<"open">>}, a \in Auths}
        \cup {list_accounts(a) : a \in Auths}
        \cup {place_limit_order(a) : a \in Auths}

\* The option types that implement Paginate.
Pageable == {"PageOptions", "ListOrderOptions"}

\* ------------------------------------------------------------------ actions

\* A call of a setter of the builder, and none.
Set(name, value) == [name |-> name, value |-> value]
NoSetting == Set("none", 0)

NoBuilder == QueryBuilder_new(NoRequest, CBParams_new, NoAuth, "none")

NoStream == [PaginateBuilder_new("") EXCEPT !.state = "Stop"]

\* The credentials of a feed session: none (connect), or those of
\* connect_auth, with a secret that is base64 or is not.
FeedAuths == {NoAuth, Auth("k", "p", "cw=="), Auth("k", "p", "!")}

\* A client call has returned a QueryBuilder (builder.rs) or a
\* PaginateBuilder (stream.rs), or connect / connect_auth has returned a
\* WebSocketFeed (websocket.rs).
Init ==
    /\ \/ /\ variant = "builder.rs"
          /\ builder \in Endpoints
          /\ stream = NoStream
          /\ feed = NoFeed
          /\ phase = "Builder"
       \/ /\ variant = "stream.rs"
          /\ builder = NoBuilder
          /\ stream = PaginateBuilder_new("/products/BTC-USD/trades")
          /\ feed = NoFeed
          /\ phase = "Builder"
       \/ /\ variant = "websocket.rs"
          /\ builder = NoBuilder
          /\ stream = NoStream
          /\ feed \in {WebSocketFeed(a) : a \in FeedAuths}
          /\ phase = "Feed"
    /\ rebuilt = NotBuilt
    /\ now = Epoch
    /\ built = NotBuilt
    /\ in_flight = NoFuture
    /\ paginated = NoPaginated
    /\ ret = NoRet
    /\ nRequests = 0
    /\ nResponses = 0
    /\ nErrors = 0
    /\ pattern = "afters"
    /\ query0 = CBParams_new
    /\ aborted = FALSE
    /\ setting = NoSetting

\* The clock advances.  It is read by auth_request, so that its ticks after
\* the builder's terminal call change nothing the program can see, and by
\* every subscribe of a feed session.
Tick ==
    /\ ~aborted
    /\ \/ variant = "builder.rs" /\ phase = "Builder"
       \/ variant = "websocket.rs"
    /\ now < Epoch + MaxClock
    /\ now' = now + 1
    /\ UNCHANGED <<variant, setting, rebuilt, feed, builder, phase, built, in_flight, paginated, stream, ret,
                   nRequests, nResponses, nErrors, pattern, query0, aborted>>

Setter(name, value, q) ==
    /\ ~aborted
    /\ phase = "Builder"
    /\ builder.options \in Pageable
    /\ builder' = [builder EXCEPT !.query = q]
    /\ setting' = Set(name, value)
    /\ UNCHANGED <<variant, rebuilt, feed, phase, now, built, in_flight, paginated, stream, ret,
                   nRequests, nResponses, nErrors, pattern, query0, aborted>>

\* QueryBuilder::limit, before, after.
limit == \E value \in CursorVals : Setter("limit", value, set_limit(builder.query, value))

before == \E value \in CursorVals : Setter("before", value, set_before(builder.query, value))

after == \E value \in CursorVals : Setter("after", value, set_after(builder.query, value))

\* A terminal method that has executed the stored request before
\* auth_request fails.
Refused_after_send(call, r) ==
    /\ r.kind # "Ok"
    /\ phase' = "Failed"
    /\ ret' = Ret(call, r.kind, r.err, NoResponse)
    /\ aborted' = (r.kind = "panic")
    /\ in_flight' = [req |-> builder.request, id |-> nRequests + 1, done |-> FALSE]
    /\ nRequests' = nRequests + 1
    /\ UNCHANGED <<paginated, query0>>

\* A terminal method whose auth_request fails: the error is returned (or the
\* panic unwinds) before any request is executed.
Refused(call, r) ==
    /\ r.kind # "Ok"
    /\ phase' = "Failed"
    /\ ret' = Ret(call, r.kind, r.err, NoResponse)
    /\ aborted' = (r.kind = "panic")
    /\ UNCHANGED <<in_flight, nRequests, paginated, query0>>

\* QueryBuilder::text (and json, which awaits text) up to the await of execute.
text ==
    /\ ~aborted
    /\ variant = "builder.rs"
    /\ phase = "Builder"
    /\ \E r \in {auth_request(builder, now)} :
        /\ built' = r
        /\ builder' = after_auth_request(builder, r)
        /\ \/ Refused("text", r)
           \/ /\ r.kind = "Ok"
              /\ in_flight' = execute(r.request, nRequests + 1)
              /\ nRequests' = nRequests + 1
              /\ phase' = "Text"
              /\ UNCHANGED <<ret, aborted, paginated, query0>>
    /\ setting' = NoSetting
    /\ UNCHANGED <<variant, rebuilt, feed, now, stream, nResponses, nErrors, pattern>>

\* QueryBuilder::text from the await on: the response arrives (text reads
\* its status and body, never its cursor headers).
text_resume ==
    /\ ~aborted
    /\ phase = "Text"
    /\ \E out \in Outcomes :
        /\ out.kind # "Pending"
        /\ ~out.res.after.some /\ ~out.res.before.some
        /\ ret' = text_response(in_flight, out)
    /\ in_flight' = Resolved(in_flight)
    /\ phase' = "Done"
    /\ UNCHANGED <<variant, setting, rebuilt, feed, builder, now, built, paginated, stream,
                   nRequests, nResponses, nErrors, pattern, query0, aborted>>

\* The requests a new sequence has executed: its in_flight future, if it
\* holds one.
Executed(fut) == IF fut.done THEN 0 ELSE 1

\* QueryBuilder::paginate: auth_request, then Paginated::new.
paginate ==
    /\ ~aborted
    /\ variant = "builder.rs"
    /\ phase = "Builder"
    /\ builder.options \in Pageable
    /\ \E r \in {auth_request(builder, now)} :
        /\ built' = r
        /\ builder' = after_auth_request(builder, r)
        /\ \/ Refused("paginate", r)
           \/ /\ r.kind = "Ok"
              /\ \E p \in {Paginated_new(r.request, builder.query, nRequests + 1)} :
                    /\ in_flight' = p.in_flight
                    /\ paginated' = Fields(p)
                    /\ nRequests' = nRequests + Executed(p.in_flight)
              /\ query0' = builder.query
              /\ phase' = "Paging"
              /\ ret' = Ret("paginate", "Ok", "", NoResponse)
              /\ UNCHANGED aborted
    /\ setting' = NoSetting
    /\ UNCHANGED <<variant, rebuilt, feed, now, stream, nResponses, nErrors, pattern>>

\* The summary of the responses resolved so far, after one more outcome.
Observe(pat, out) ==
    IF pat = "afters" /\ out.kind = "Ok" /\ out.res.after.some THEN "afters"
    ELSE IF pat = "afters" /\ out.kind = "Ok" /\ ~out.res.before.some THEN "closed"
    ELSE "other"

\* The bookkeeping of one poll that made step s.
Polled(s) ==
    LET errs == IF s.ret.kind = "Err" THEN 1 ELSE 0
    IN  /\ nRequests + s.issued <= MaxPages
        /\ nErrors + errs <= MaxErrors
        /\ in_flight' = s.in_flight
        /\ nRequests' = nRequests + s.issued
        /\ nResponses' = nResponses + (IF s.ret.kind = "Ok" THEN 1 ELSE 0)
        /\ nErrors' = nErrors + errs
        /\ aborted' = (s.ret.kind = "panic")

\* The inputs of one poll: the transport's outcome is read only when the
\* engine polls a future that has not completed.
PollInputs(state) ==
    IF state = "Stop" THEN {<<PendingOutcome, "Pending">>}
    ELSE IF in_flight.done THEN {<<PendingOutcome, again>> : again \in Repolls}
    ELSE {<<out, "Pending">> : out \in Outcomes}

Observed(state, out) ==
    IF state = "Stop" \/ in_flight.done \/ out.kind = "Pending"
    THEN pattern ELSE Observe(pattern, out)

\* The consumer polls the sequence: Paginated::poll_next.
poll ==
    /\ ~aborted
    /\ variant = "builder.rs"
    /\ phase = "Paging"
    /\ \E in \in PollInputs(paginated.state) :
        \E s \in {poll_next(paginated, in_flight, in[1], in[2])} :
            /\ Polled(s)
            /\ ret' = pages(s.ret)
            /\ paginated' = s.paginated
            /\ pattern' = Observed(paginated.state, in[1])
    /\ UNCHANGED <<variant, setting, rebuilt, feed, builder, phase, now, built, stream, query0>>

StreamSetter(name, value, params) ==
    /\ ~aborted
    /\ variant = "stream.rs"
    /\ phase = "Builder"
    /\ stream' = [stream EXCEPT !.params = params]
    /\ setting' = Set(name, value)
    /\ UNCHANGED <<variant, rebuilt, feed, builder, phase, now, built, in_flight, paginated, ret,
                   nRequests, nResponses, nErrors, pattern, query0, aborted>>

\* PaginateBuilder::limit, before, after (stream.rs).
stream_limit ==
    \E value \in CursorVals :
        StreamSetter("limit", value, PaginateBuilder_limit(stream.params, ToStr(value)))

stream_before ==
    \E value \in CursorVals :
        StreamSetter("before", value, PaginateBuilder_before(stream.params, ToStr(value)))

stream_after ==
    \E value \in CursorVals :
        StreamSetter("after", value, PaginateBuilder_after(stream.params, ToStr(value)))

\* PaginateBuilder::paginate: Paginate::new sends the first request.
stream_paginate ==
    /\ ~aborted
    /\ variant = "stream.rs"
    /\ phase = "Builder"
    /\ in_flight' = execute(Paginate_new_request(stream), nRequests + 1)
    /\ nRequests' = nRequests + 1
    /\ phase' = "Paging"
    /\ ret' = Ret("paginate", "Ok", "", NoResponse)
    /\ setting' = NoSetting
    /\ UNCHANGED <<variant, rebuilt, feed, builder, now, built, paginated, stream,
                   nResponses, nErrors, pattern, query0, aborted>>

\* The consumer polls the sequence: Paginate::poll_next (stream.rs).
stream_poll ==
    /\ ~aborted
    /\ variant = "stream.rs"
    /\ phase = "Paging"
    /\ \E in \in PollInputs(stream.state) :
        \E s \in {Paginate_poll_next(stream, in_flight, in[1], in[2])} :
            /\ Polled(s)
            /\ ret' = Paginate_json(s.ret)
            /\ stream' = s.paginated
            /\ pattern' = Observed(stream.state, in[1])
    /\ UNCHANGED <<variant, setting, rebuilt, feed, builder, phase, now, built, paginated, query0>>

\* The consumer abandons the sequence of pages before its end or after it.
drop ==
    /\ ~aborted
    /\ variant = "builder.rs"
    /\ phase = "Paging"
    /\ \E s \in {Paginated_drop(paginated, in_flight)} :
        /\ Polled(s)
        /\ ret' = s.ret
        /\ paginated' = s.paginated
    /\ phase' = "Dropped"
    /\ UNCHANGED <<variant, setting, rebuilt, feed, builder, now, built, stream, query0,
                   pattern>>

\* auth_request is called once more on the builder, at the clock value of
\* the first call (auth_request borrows the builder).
auth_request_again ==
    /\ ~aborted
    /\ variant = "builder.rs"
    /\ phase \in {"Text", "Done", "Failed"}
    /\ rebuilt = NotBuilt
    /\ \E r \in {auth_request(builder, now)} :
        /\ rebuilt' = r
        /\ builder' = after_auth_request(builder, r)
        /\ aborted' = (r.kind = "panic")
    /\ UNCHANGED <<variant, setting, feed, phase, now, built, in_flight, paginated, stream, ret,
                   nRequests, nResponses, nErrors, pattern, query0>>

\* The calls in progress without the first entry of call.
Without(calls, call) ==
    LET i == CHOOSE k \in 1..Len(calls) : calls[k] = call /\ \A j \in 1..(k - 1) : calls[j] # call
    IN  SubSeq(calls, 1, i - 1) \o SubSeq(calls, i + 1, Len(calls))

\* A call of the feed session begins: it takes the session (&mut self, or
\* self for close) and has written and returned nothing yet.
Begin(call) ==
    /\ ~aborted
    /\ variant = "websocket.rs"
    /\ feed.owned
    /\ Exclusive(feed)
    /\ Len(feed.calls) < MaxCalls
    /\ feed' = [feed EXCEPT !.calls = Append(@, call), !.wrote = <<>>, !.msg = NoStr]
    /\ ret' = Ret(call, "Pending", "", NoResponse)
    /\ UNCHANGED <<variant, setting, builder, phase, now, built, rebuilt, in_flight, paginated,
                   stream, nRequests, nResponses, nErrors, pattern, query0, aborted>>

\* The caller calls subscribe, unsubscribe or close, or calls text when
\* try_next has something to yield.
ws_begin ==
    \/ \E call \in {"subscribe", "unsubscribe", "close"} : Begin(call)
    \/ (feed.inbox # <<>> \/ ~feed.up) /\ Begin("text")

\* The call of the feed session named call is in progress.
InCall(call) ==
    /\ ~aborted
    /\ variant = "websocket.rs"
    /\ \E i \in 1..Len(feed.calls) : feed.calls[i] = call

\* A call of the feed session that made d returns.
FeedCall(call, d) ==
    /\ feed' = [d.feed EXCEPT !.calls = Without(@, call)]
    /\ ret' = [Ret(call, d.kind, d.err, NoResponse) EXCEPT !.source = d.source]
    /\ aborted' = (d.kind = "panic")
    /\ UNCHANGED <<variant, setting, builder, phase, now, built, rebuilt, in_flight, paginated,
                   stream, nRequests, nResponses, nErrors, pattern, query0>>

\* WebSocketFeed::subscribe.
ws_subscribe ==
    /\ InCall("subscribe")
    /\ \E d \in {subscribe(feed, now)} : FeedCall("subscribe", d)

\* WebSocketFeed::unsubscribe.
ws_unsubscribe ==
    /\ InCall("unsubscribe")
    /\ \E d \in {unsubscribe(feed)} : FeedCall("unsubscribe", d)

\* WebSocketFeed::text returns: try_next has yielded the next frame, or the
\* end of a stream whose transport is down.
ws_text ==
    /\ InCall("text")
    /\ \/ /\ feed.inbox # <<>>
          /\ \E d \in {ws_text_of(feed, Head(feed.inbox))} : FeedCall("text", d)
       \/ /\ feed.inbox = <<>> /\ ~feed.up
          /\ FeedCall("text", Did([feed EXCEPT !.wrote = <<>>, !.msg = NoStr], "None", ""))

\* WebSocketFeed::close.
ws_close ==
    /\ InCall("close")
    /\ \E d \in {close(feed)} : FeedCall("close", d)

\* The transport receives a frame of the exchange; a close frame is the
\* last one.
ws_deliver ==
    /\ ~aborted
    /\ variant = "websocket.rs"
    /\ feed.up
    /\ Len(feed.inbox) < MaxInbox
    /\ \E frame \in Incoming :
        feed' = [feed EXCEPT !.inbox = Append(@, frame), !.up = (frame.op # "Close")]
    /\ UNCHANGED <<variant, setting, builder, phase, now, built, rebuilt, in_flight, paginated,
                   stream, ret, nRequests, nResponses, nErrors, pattern, query0, aborted>>

\* The connection is lost.
ws_drop ==
    /\ ~aborted
    /\ variant = "websocket.rs"
    /\ feed.up
    /\ feed' = [feed EXCEPT !.up = FALSE]
    /\ UNCHANGED <<variant, setting, builder, phase, now, built, rebuilt, in_flight, paginated,
                   stream, ret, nRequests, nResponses, nErrors, pattern, query0, aborted>>

Next ==
    \/ Tick
    \/ limit
    \/ before
    \/ after
    \/ text
    \/ text_resume
    \/ paginate
    \/ poll
    \/ stream_limit
    \/ stream_before
    \/ stream_after
    \/ stream_paginate
    \/ stream_poll
    \/ drop
    \/ auth_request_again
    \/ ws_begin
    \/ ws_subscribe
    \/ ws_unsubscribe
    \/ ws_text
    \/ ws_close
    \/ ws_deliver
    \/ ws_drop

Spec == Init /\ [][Next]_vars

\* -------------------------------------------------- keep-alive specification

\* A feed session whose transport holds one ping or pong frame of the peer.
KeepAliveInit ==
    /\ variant = "websocket.rs"
    /\ builder = NoBuilder
    /\ stream = NoStream
    /\ \E a \in FeedAuths, op \in {"Ping", "Pong"}, data \in Payloads :
        feed = [WebSocketFeed(a) EXCEPT !.inbox = <<Frame(op, data)>>]
    /\ phase = "Feed"
    /\ rebuilt = NotBuilt
    /\ now = Epoch
    /\ built = NotBuilt
    /\ in_flight = NoFuture
    /\ paginated = NoPaginated
    /\ ret = NoRet
    /\ nRequests = 0
    /\ nResponses = 0
    /\ nErrors = 0
    /\ pattern = "afters"
    /\ query0 = CBParams_new
    /\ aborted = FALSE
    /\ setting = NoSetting

\* The session has written a ping frame that the peer has not taken yet.
PingOnWire ==
    /\ feed.up
    /\ feed.calls = <<>>
    /\ feed.wrote # <<>>
    /\ Head(feed.wrote).op = "Ping"

\* The peer takes a ping frame of the session (Message::Ping written by the
\* Pong arm of text) and answers it with a pong frame of the same payload.
peer_pong ==
    /\ ~aborted
    /\ variant = "websocket.rs"
    /\ PingOnWire
    /\ feed' = [feed EXCEPT !.inbox = Append(@, Frame("Pong", Head(feed.wrote).data)),
                            !.wrote = Tail(@)]
    /\ UNCHANGED <<variant, setting, builder, phase, now, built, rebuilt, in_flight, paginated,
                   stream, ret, nRequests, nResponses, nErrors, pattern, query0, aborted>>

\* The consumer reads: text is called when try_next has something to yield,
\* which is after the peer has answered.
keep_reading ==
    /\ ~PingOnWire
    /\ (feed.inbox # <<>> \/ ~feed.up)
    /\ Begin("text")

\* The caller calls subscribe, unsubscribe or close.
keep_calling ==
    /\ ~PingOnWire
    /\ \E call \in {"subscribe", "unsubscribe", "close"} : Begin(call)

KeepAliveNext ==
    \/ Tick
    \/ keep_reading
    \/ keep_calling
    \/ ws_text
    \/ ws_subscribe
    \/ ws_unsubscribe
    \/ ws_close
    \/ ws_drop
    \/ peer_pong

\* The consumer keeps reading, a call that has begun returns, and the peer
\* answers every ping.
KeepAliveSpec ==
    /\ KeepAliveInit
    /\ [][KeepAliveNext]_vars
    /\ SF_vars(keep_reading)
    /\ WF_vars(ws_text)
    /\ WF_vars(ws_subscribe)
    /\ WF_vars(ws_unsubscribe)
    /\ WF_vars(ws_close)
    /\ WF_vars(peer_pong)

\* ------------------------------------------------------------------ properties

\* The request carries a query parameter of this name.
HasParam(req, name) ==
    req.query.some /\ \E i \in 1..Len(req.query.v) : req.query.v[i][1] = name

\* The sequence of this run: its state and the before value it started with.
EngineState == IF variant = "builder.rs" THEN paginated.state ELSE stream.state

Before0 == IF variant = "builder.rs" THEN query0.before.some ELSE stream.params.before.some

\* The last call was a poll that yielded a response.
Yielded == ret.call = "poll_next" /\ ret.kind = "Ok"

\* The last call was a poll that yielded a response and issued the next request.
Followed == Yielded /\ in_flight.id = ret.res.of + 1 /\ ~in_flight.done

\* C1: when the query state holds no before and the first n responses carry
\* cb-after and response n+1 carries neither cursor header, the sequence
\* yields the n+1 responses in request order and then ends, yields no error,
\* and n+1 requests are issued.  As a state predicate: while every response
\* so far carried cb-after, nothing has failed, every response but the one
\* awaited has been yielded and the next request is in flight; once the
\* response without cursor headers has come, the engine is stopped with as
\* many responses yielded as requests issued, and every poll reports the end.
C1_TerminatesAfterLastPage ==
    (variant = "builder.rs" /\ phase = "Paging" /\ ~query0.before.some) =>
        /\ pattern = "afters" =>
                /\ ~aborted
                /\ nErrors = 0
                /\ paginated.state = "Start"
                /\ nRequests = nResponses + 1
                /\ in_flight.id = nRequests /\ ~in_flight.done
        /\ pattern = "closed" =>
                /\ ~aborted
                /\ nErrors = 0
                /\ paginated.state = "Stop"
                /\ nRequests = nResponses
                /\ ret.kind \in {"Ok", "None"}
        /\ (pattern \in {"afters", "closed"} /\ Yielded) => ret.res.of = nResponses

\* C2: when the in-flight request resolves with a transport error the
\* sequence yields one error element, and from then on issues no request and
\* every poll reports the end of the sequence.
C2_TransportErrorEndsSequence ==
    [][(/\ variant = "builder.rs"
        /\ phase = "Paging"
        /\ ret.call = "poll_next" /\ ret.kind = "Err" /\ ret.err = "Client")
            => (ret'.kind = "None" /\ nRequests' = nRequests /\ nErrors' = nErrors)]_vars

\* C3: a sequence constructed with before set never sets after in its query
\* state, issues no request carrying an after parameter, follows only
\* cb-before, and stops at the first response without cb-before (paging.rs
\* and stream.rs).
C3_BeforeLocksDirection ==
    (phase = "Paging" /\ Before0) =>
        /\ ~HasParam(in_flight.req, "after")
        /\ variant = "builder.rs" =>
                (~paginated.query.after.some /\ paginated.query.before.some)
        /\ Followed => (ret.res.before.some /\ HasParam(in_flight.req, "before"))
        /\ (Yielded /\ ~ret.res.before.some) => (EngineState = "Stop" /\ in_flight.done)

\* C3 happens: started with before, the engine has followed the cb-before of
\* a response that carried cb-after as well.
C3_Witness ==
    /\ variant = "builder.rs" /\ phase = "Paging" /\ query0.before.some
    /\ Followed /\ ret.res.after.some /\ ret.res.before.some
    /\ nRequests = 3

\* C4: a poll that resolves a response follows cb-after when the response
\* carries it and the query state holds no before; otherwise follows
\* cb-before when the response carries it; otherwise stops.  Following a
\* header: the response is yielded, its value is set in the query state and
\* the next request, carrying it, is in flight.
C4_NextStepChoice ==
    [][(/\ variant = "builder.rs"
        /\ phase = "Paging"
        /\ ~in_flight.done
        /\ ret'.call = "poll_next"
        /\ ret'.res.of = in_flight.id)
            => LET res == ret'.res
                   next == in_flight'
                   issued == next.id = in_flight.id + 1 /\ ~next.done
               IN  IF res.after.some /\ ~paginated.query.before.some
                   THEN /\ ret'.kind = "Ok" /\ issued
                        /\ paginated'.query.after.some /\ ~paginated'.query.before.some
                        /\ HasParam(next.req, "after") /\ ~HasParam(next.req, "before")
                   ELSE IF res.before.some
                   THEN /\ ret'.kind = "Ok" /\ issued
                        /\ paginated'.query.before.some /\ ~paginated'.query.after.some
                        /\ HasParam(next.req, "before") /\ ~HasParam(next.req, "after")
                   ELSE /\ ret'.kind = "Ok" /\ next.done
                        /\ paginated'.state = "Stop"
                        /\ nRequests' = nRequests]_vars

\* C5: at most one of before and after is set in the query state, in the
\* builder and in the sequence after any number of steps; set_before clears
\* after and set_after clears before.
C5_BeforeAfterExclusive ==
    /\ \A q \in {builder.query, paginated.query, query0} :
            ~(q.before.some /\ q.after.some)
    /\ ~(stream.params.before.some /\ stream.params.after.some)
    /\ \A q \in {builder.query, paginated.query} : \A value \in CursorVals :
            /\ set_before(q, value).before = SomeOf(value)
            /\ ~set_before(q, value).after.some
            /\ set_after(q, value).after = SomeOf(value)
            /\ ~set_after(q, value).before.some

\* C5 happens: a sequence built with after set has followed a cb-before, so
\* that set_before replaced the after of its query state.
C5_Witness ==
    /\ variant = "builder.rs" /\ phase = "Paging"
    /\ query0.after.some
    /\ paginated.query.before.some /\ ~paginated.query.after.some
    /\ Followed

\* C6: the engine has at most one request outstanding: only the request
\* issued last can be unresolved, and since a request is issued at
\* construction or in the step that yields the response of the request
\* before it, the requests issued are the responses yielded plus one while
\* the engine is active, and equal to them once it has stopped.
C6_OneRequestOutstanding ==
    phase = "Paging" =>
        /\ in_flight.id = nRequests
        /\ EngineState = "Start" => nRequests = nResponses + 1
        /\ EngineState = "Stop" => (nRequests = nResponses /\ in_flight.done)
        /\ Yielded => ret.res.of = nResponses

\* C6 happens: the third request is outstanding, two responses were yielded.
C6_Witness ==
    /\ variant = "builder.rs" /\ phase = "Paging"
    /\ nRequests = 3 /\ nResponses = 2 /\ ~in_flight.done
    /\ paginated.state = "Start"

\* C7: once the engine is in Stop, every poll reports the end of the
\* sequence, no request is issued and the state stays Stop.
C7_StopIsTerminal ==
    [][(phase = "Paging" /\ EngineState = "Stop" /\ phase' = "Paging")
            => /\ EngineState' = "Stop"
               /\ ret'.call = "poll_next" /\ ret'.kind = "None"
               /\ nRequests' = nRequests
               /\ in_flight' = in_flight
               /\ nResponses' = nResponses /\ nErrors' = nErrors]_vars

\* C7 happens: the engine is in Stop and a poll has reported the end.
C7_Witness ==
    /\ variant = "builder.rs" /\ phase = "Paging"
    /\ paginated.state = "Stop"
    /\ ret.call = "poll_next" /\ ret.kind = "None"
    /\ nResponses = 2

\* C8: when paginate has returned and the consumer has not polled yet, the
\* first request has been issued and is in flight: it is the request
\* auth_request built, and no response has been yielded.
C8_FirstRequestAtConstruction ==
    (phase = "Paging" /\ ret.call = "paginate") =>
        /\ nRequests = 1
        /\ in_flight.id = 1 /\ ~in_flight.done
        /\ nResponses = 0 /\ nErrors = 0
        /\ EngineState = "Start"
        /\ variant = "builder.rs" =>
                (in_flight.req = built.request /\ paginated.request = built.request)
        /\ variant = "stream.rs" => in_flight.req = Paginate_new_request(stream)

\* C8 happens: paginate has returned a sequence that was not polled.
C8_Witness ==
    /\ variant = "builder.rs" /\ phase = "Paging" /\ ret.call = "paginate"
    /\ builder.auth.some /\ builder.query.limit.some

\* The authentication headers a request carries.
AuthHeadersOf(req) == {h \in AuthHeaders : req.headers[h].some}

\* C9: a request auth_request returns carries all four authentication
\* headers when the client has credentials and none of them when it has not.
C9_AllFourOrNone ==
    built.kind = "Ok" =>
        /\ builder.auth.some => AuthHeadersOf(built.request) = AuthHeaders
        /\ ~builder.auth.some => AuthHeadersOf(built.request) = {}
        /\ Cardinality(AuthHeadersOf(built.request)) \in {0, 4}

\* C9 happens: auth_request has returned a request of a client with credentials.
C9_Witness ==
    /\ built.kind = "Ok" /\ builder.auth.some
    /\ Cardinality(AuthHeadersOf(built.request)) = 4
    /\ built.request.method = "POST"

\* C10 as stated: without credentials auth_request returns the builder's
\* request unchanged (method, URL, query, body, headers); with credentials
\* the returned request differs from it in the four authentication headers
\* alone.
C10_AuthChangesOnlyHeaders ==
    built.kind = "Ok" =>
        /\ built.request.method = builder.request.method
        /\ built.request.path = builder.request.path
        /\ built.request.query = builder.request.query
        /\ built.request.body = builder.request.body
        /\ \A h \in HeaderNames \ AuthHeaders :
                built.request.headers[h] = builder.request.headers[h]
        /\ ~builder.auth.some => built.request = builder.request

\* C10, amended: auth_request returns the builder's request with the query
\* state serialized into it (appended to the URL's query, or for a POST as
\* the JSON body with Content-Type application/json) and User-Agent set to
\* cbpro; method, path and every other part are as before, and the
\* authentication headers are changed only when the client has credentials.
C10_SerializedAndUserAgent ==
    built.kind = "Ok" =>
        LET base == builder.request
            got == built.request
            pairs == (IF base.query.some THEN base.query.v ELSE <<>>)
                        \o UrlPairs(builder.query)
        IN  /\ got.method = base.method
            /\ got.path = base.path
            /\ got.headers["User-Agent"] = SomeOf("cbpro")
            /\ base.method = "POST" =>
                    /\ got.query = base.query
                    /\ got.body = SomeOf(to_vec(builder.query))
                    /\ got.headers["content-type"] = SomeOf("application/json")
            /\ base.method # "POST" =>
                    /\ got.query = (IF pairs = <<>> THEN NoPairs ELSE SomeOf(pairs))
                    /\ got.body = base.body
                    /\ got.headers["content-type"] = base.headers["content-type"]
            /\ ~builder.auth.some =>
                    \A h \in AuthHeaders : got.headers[h] = base.headers[h]

\* C10 happens: auth_request has returned the request of a client without
\* credentials whose query state holds a limit.
C10_Witness ==
    /\ built.kind = "Ok" /\ ~builder.auth.some
    /\ builder.query.limit.some
    /\ built.request # builder.request

\* The canonical message of a request as the exchange computes it from the
\* request it receives: timestamp, method, path, "?" and the query string
\* when the URL has one, then the body.
WireMessage(req, timestamp) ==
    timestamp \o req.method \o req.path
        \o (IF req.query.some THEN "?" \o QueryString(req.query.v) ELSE "")
        \o (IF req.body.some THEN req.body.v ELSE "")

\* The signature the exchange expects for a message under a secret.
WireSignature(secret, message) ==
    base64_encode(hmac_sha256(base64_decode(secret).v, message))

\* auth_request has returned the request of a client with credentials.
Signed == variant = "builder.rs" /\ built.kind = "Ok" /\ builder.auth.some

\* C11: for an authenticated request there is one reading of the clock, the
\* one at the call, and both the CB-ACCESS-TIMESTAMP header and the
\* timestamp that prefixes the signed message are that reading.
C11_OneTimestamp ==
    Signed =>
        \E t \in Epoch..(Epoch + MaxClock) :
            /\ t = now
            /\ built.request.headers["CB-ACCESS-TIMESTAMP"] = SomeOf(ToStr(t))
            /\ built.request.headers["CB-ACCESS-SIGN"].some
            /\ built.request.headers["CB-ACCESS-SIGN"].v =
                    WireSignature(builder.auth.secret,
                        WireMessage(built.request,
                                    built.request.headers["CB-ACCESS-TIMESTAMP"].v))

\* C11 happens: a request was signed after the clock had advanced.
C11_Witness ==
    /\ Signed /\ now = Epoch + 1
    /\ built.request.headers["CB-ACCESS-TIMESTAMP"] = SomeOf(ToStr(Epoch + 1))

\* C12: the signed message is timestamp + method + path, then "?" and the
\* query string exactly when the URL has one, then the body; CB-ACCESS-SIGN
\* is base64(HMAC-SHA256(base64-decode(secret), message)); for GET /accounts
\* at timestamp 1000000000 the message is "1000000000GET/accounts".
C12_CanonicalMessage ==
    Signed =>
        /\ built.request.headers["CB-ACCESS-SIGN"] =
                SomeOf(WireSignature(builder.auth.secret,
                                     WireMessage(built.request, ToStr(now))))
        /\ (builder.request.path = "/accounts" /\ now = 1000000000) =>
                built.request.headers["CB-ACCESS-SIGN"] =
                    SomeOf(base64_encode(hmac_sha256("s", "1000000000GET/accounts")))

\* C12 happens: a GET /orders whose URL has a query string was signed.
C12_Witness ==
    /\ Signed
    /\ built.request.method = "GET" /\ built.request.path = "/orders"
    /\ built.request.query.some
    /\ builder.query.limit.some

\* C13: the parameters are serialized into the request before it is signed:
\* the first request a call transmits holds the parameters (in its query
\* string, or for a POST in its body), and its signature is the one of the
\* query string and body it is transmitted with.
C13_SignedWhatIsSent ==
    (Signed /\ in_flight.id = 1) =>
        LET sent == in_flight.req
        IN  /\ sent.method = "POST" => sent.body = SomeOf(to_vec(builder.query))
            /\ sent.method # "POST" =>
                    \A i \in 1..Len(UrlPairs(builder.query)) :
                        \E j \in 1..Len(sent.query.v) :
                            sent.query.v[j] = UrlPairs(builder.query)[i]
            /\ sent.headers["CB-ACCESS-SIGN"] =
                    SomeOf(WireSignature(builder.auth.secret,
                        WireMessage(sent, sent.headers["CB-ACCESS-TIMESTAMP"].v)))

\* C13 happens: an authenticated POST with a body is in flight.
C13_Witness ==
    /\ Signed /\ in_flight.id = 1 /\ ~in_flight.done
    /\ phase = "Text"
    /\ in_flight.req.method = "POST" /\ in_flight.req.body.some

\* C14: when signing fails in auth_request, text, json and paginate return
\* that error and no HTTP request has been issued.
C14_SigningFailureBeforeIO ==
    (variant = "builder.rs" /\ built.kind = "Err") =>
        /\ built.err \in {"Base64", "Hmac"}
        /\ ret.call \in {"text", "paginate"}
        /\ ret.kind = "Err" /\ ret.err = built.err
        /\ nRequests = 0
        /\ in_flight = NoFuture
        /\ phase = "Failed"

\* C14 happens: paginate has returned the error of a secret that is no base64.
C14_Witness ==
    /\ variant = "builder.rs" /\ built.kind = "Err"
    /\ ret.call = "paginate" /\ ret.err = "Base64"
    /\ builder.auth.secret = "!"

\* C15: no reachable state of auth_request, of poll_next or of subscribe is
\* a process abort: a key or passphrase that is no header value, a cursor
\* header that is no decimal integer and a secret that is no base64 are
\* returned to the caller as errors.
C15_NoProcessAbort == ~aborted /\ ret.kind # "panic" /\ built.kind # "panic"

FieldsOf(frame) == {field[1] : field \in frame.json}

\* C17: a subscription message carries the four auth fields key, passphrase,
\* timestamp and signature, all of them and at the top level, when its type
\* is subscribe and the session has credentials; otherwise it carries none
\* of them.
C17_AuthFieldsOnSubscribe ==
    variant = "websocket.rs" =>
        \A i \in 1..Len(feed.wrote) :
            LET frame == feed.wrote[i]
            IN  frame.op = "Text" =>
                    /\ {"type", "product_ids", "channels"} \subseteq FieldsOf(frame)
                    /\ IF <<"type", "subscribe">> \in frame.json /\ feed.auth.some
                       THEN /\ AuthFields \subseteq FieldsOf(frame)
                            /\ Cardinality(frame.json) = 7
                       ELSE /\ AuthFields \cap FieldsOf(frame) = {}
                            /\ Cardinality(frame.json) = 3

\* C17 happens: a session with credentials has sent a subscribe message.
C17_Witness ==
    /\ variant = "websocket.rs" /\ feed.auth.some
    /\ ret.call = "subscribe" /\ ret.kind = "Ok"
    /\ Len(feed.wrote) = 1
    /\ <<"type", "subscribe">> \in feed.wrote[1].json
    /\ AuthFields \subseteq FieldsOf(feed.wrote[1])

\* C18: each subscribe call of a session with credentials reads the clock
\* and sends timestamp = that reading and signature =
\* base64(HMAC-SHA256(base64-decode(secret), timestamp + "GET" +
\* "/users/self/verify")), never those of an earlier call.
C18_FreshSubscribeSignature ==
    [][(/\ variant = "websocket.rs"
        /\ feed.auth.some
        /\ ret'.call = "subscribe" /\ ret'.kind = "Ok"
        /\ (ret' # ret \/ feed'.wrote # feed.wrote))
            => /\ Len(feed'.wrote) = 1
               /\ \A field \in feed'.wrote[1].json :
                    /\ field[1] = "timestamp" => field[2] = ToStr(now)
                    /\ field[1] = "signature" =>
                            field[2] = WireSignature(feed.auth.secret,
                                ToStr(now) \o "GET" \o "/users/self/verify")
               /\ {"timestamp", "signature"} \subseteq FieldsOf(feed'.wrote[1])]_vars

\* C18 happens: a subscribe was sent after the clock had advanced.
C18_Witness ==
    /\ variant = "websocket.rs" /\ feed.auth.some
    /\ ret.call = "subscribe" /\ ret.kind = "Ok"
    /\ now = Epoch + 1
    /\ Len(feed.wrote) = 1
    /\ <<"timestamp", ToStr(Epoch + 1)>> \in feed.wrote[1].json

\* A read by the consumer takes the frame at the head of inbox.
Reads(op) ==
    /\ variant = "websocket.rs"
    /\ feed.up
    /\ feed.inbox # <<>>
    /\ Head(feed.inbox).op = op
    /\ feed'.inbox = Tail(feed.inbox)
    /\ ret'.call = "text"

\* C19: a read that takes a ping frame from an open session sends one pong
\* frame with the ping's payload and yields one informational message.
C19_PingAnsweredAndSurfaced ==
    [][Reads("Ping")
            => /\ Len(feed'.wrote) = 1
               /\ feed'.wrote[1].op = "Pong"
               /\ feed'.wrote[1].data = Head(feed.inbox).data
               /\ ret'.call = "text" /\ ret'.kind = "Ok"
               /\ feed'.msg.some]_vars

\* C20: a read that takes a pong frame from an open session sends one ping
\* frame with the pong's payload and yields one informational message.
C20_PongAnsweredAndSurfaced ==
    [][Reads("Pong")
            => /\ Len(feed'.wrote) = 1
               /\ feed'.wrote[1].op = "Ping"
               /\ feed'.wrote[1].data = Head(feed.inbox).data
               /\ ret'.call = "text" /\ ret'.kind = "Ok"
               /\ feed'.msg.some]_vars

\* C21: a read that takes a ping or a pong frame from an open session
\* returns a message and never an error.
C21_PingPongNeverError ==
    [][(Reads("Ping") \/ Reads("Pong"))
            => (ret'.kind = "Ok" /\ ret'.err = "" /\ feed'.msg.some)]_vars

\* A read by the consumer takes a close frame from the head of inbox.
ReadsClose ==
    /\ variant = "websocket.rs"
    /\ feed.inbox # <<>>
    /\ Head(feed.inbox).op = "Close"
    /\ feed'.inbox = Tail(feed.inbox)
    /\ ret'.call = "text"

\* The sequence of messages is over: the transport is down and holds nothing.
Ended == ~feed.up /\ feed.inbox = <<>>

\* C22: a read that takes a close frame carrying a code and a reason (code
\* 1000 included) fails with the WsCloseError of exactly that code and
\* reason; from that error on the sequence is over, it stays over, and every
\* read reports its end.
C22_CloseIsTerminal ==
    [][variant = "websocket.rs"
        => /\ (ReadsClose /\ Head(feed.inbox).framed)
                => /\ ret'.kind = "Err"
                   /\ ret'.source = [type |-> "WsCloseError",
                                     code |-> Head(feed.inbox).code,
                                     text |-> Head(feed.inbox).data]
                   /\ feed'.msg = NoStr
                   /\ Ended'
           /\ Ended
                => /\ Ended'
                   /\ (ret'.call = "text" /\ ret'.kind # "Pending" /\ ret' # ret)
                        => (ret'.kind = "None" /\ feed'.msg = NoStr)]_vars

\* C22 happens: a read has failed with the close error of code 1000 and the
\* exchange's reason.
C22_Witness ==
    /\ variant = "websocket.rs"
    /\ ret.call = "text" /\ ret.kind = "Err"
    /\ ret.source = [type |-> "WsCloseError", code |-> 1000, text |-> "bye"]
    /\ Ended

\* C23 as stated: a read that takes a close message without a frame fails
\* with the WsCloseError of the abnormal-closure code and the reason
\* "no reason given".
C23_NoReasonGiven ==
    [][(ReadsClose /\ ~Head(feed.inbox).framed)
            => /\ ret'.kind = "Err"
               /\ ret'.source = [type |-> "WsCloseError", code |-> Abnormal,
                                 text |-> "no reason given"]]_vars

\* C23: a read that takes a close message without a frame fails with the
\* WsCloseError of the abnormal-closure code (1006) and the reason
\* "Close message with no frame received".
C23_NoFrameReceived ==
    [][(ReadsClose /\ ~Head(feed.inbox).framed)
            => /\ ret'.kind = "Err"
               /\ ret'.source = [type |-> "WsCloseError", code |-> 1006,
                                 text |-> "Close message with no frame received"]]_vars

\* C23 happens: a read has failed on a close message without a frame.
C23_Witness ==
    /\ variant = "websocket.rs"
    /\ ret.call = "text" /\ ret.kind = "Err"
    /\ ret.source.type = "WsCloseError" /\ ret.source.code = Abnormal
    /\ feed.inbox = <<>>

\* A call of this name returns in this step.
Returns(call) ==
    /\ variant = "websocket.rs"
    /\ ret.call = call /\ ret.kind = "Pending"
    /\ ret'.call = call /\ ret'.kind # "Pending"

\* C24: close on an open session sends exactly one close frame, of the
\* normal-closure code, and takes the session from the caller; once the
\* session is taken no call on it begins or returns: no subscribe,
\* unsubscribe, read or second close.
C24_CloseThenNothing ==
    [][variant = "websocket.rs"
        => /\ Returns("close")
                => /\ ~feed'.owned /\ ~feed'.up
                   /\ feed.up => /\ ret'.kind = "Ok"
                                 /\ Len(feed'.wrote) = 1
                                 /\ feed'.wrote[1].op = "Close"
                                 /\ feed'.wrote[1].framed
                                 /\ feed'.wrote[1].code = 1000
                   /\ ~feed.up => (ret'.kind = "Err" /\ feed'.wrote = <<>>)
           /\ ~feed.owned => (feed' = feed /\ ret' = ret)]_vars

\* C24 happens: close has sent its frame on an open session that had frames
\* to read.
C24_Witness ==
    /\ variant = "websocket.rs"
    /\ ret.call = "close" /\ ret.kind = "Ok"
    /\ ~feed.owned
    /\ Len(feed.wrote) = 1 /\ feed.wrote[1].op = "Close"

\* C25: at most one call holds the session at a time, so that the pong or
\* ping a read writes and the frame of subscribe, unsubscribe or close are
\* never written together: the transport has one writer at most.
C25_OneWriter ==
    variant = "websocket.rs" =>
        /\ Len(feed.calls) <= 1
        /\ Len(feed.wrote) <= 1
        /\ (feed.calls # <<>>) => (ret.call = feed.calls[1] /\ ret.kind = "Pending")

\* C25 happens: a read is in progress on an open session whose next frame
\* is a ping, which the read answers with a pong.
C25_Witness ==
    /\ variant = "websocket.rs"
    /\ feed.calls = <<"text">>
    /\ feed.up /\ feed.inbox # <<>>
    /\ Head(feed.inbox).op = "Ping"

\* C26: subscribe reads nothing from the transport: it returns with every
\* incoming frame still to be read and no message taken, having sent exactly
\* one text frame when it returns Ok and none otherwise; a text frame of the
\* exchange is what a later read returns.
C26_SubscribeAwaitsNothing ==
    [][variant = "websocket.rs"
        => /\ Returns("subscribe")
                => /\ feed'.inbox = feed.inbox
                   /\ feed'.msg = NoStr
                   /\ (ret'.kind = "Ok")
                        => (Len(feed'.wrote) = 1 /\ feed'.wrote[1].op = "Text")
                   /\ (ret'.kind # "Ok") => feed'.wrote = <<>>
           /\ (Returns("text") /\ feed.inbox # <<>> /\ Head(feed.inbox).op = "Text")
                => /\ ret'.kind = "Ok"
                   /\ feed'.msg = SomeOf(Head(feed.inbox).data)
                   /\ feed'.inbox = Tail(feed.inbox)]_vars

\* C26 happens: subscribe has returned Ok while a frame of the exchange was
\* waiting to be read.
C26_Witness ==
    /\ variant = "websocket.rs"
    /\ ret.call = "subscribe" /\ ret.kind = "Ok"
    /\ Len(feed.wrote) = 1 /\ feed.wrote[1].op = "Text"
    /\ Len(feed.inbox) = 1 /\ feed.calls = <<>>

\* C27: whenever text or a poll of the pages has taken a response whose
\* status is no success, the caller receives an error whose source is the
\* CBError of that status and body, and no payload.
C27_NonSuccessIsRejected ==
    (/\ variant = "builder.rs"
     /\ ret.call \in {"text", "poll_next"}
     /\ ret.res.of # 0
     /\ ~is_success(ret.res.status))
        => /\ ret.source = [type |-> "CBError", code |-> ret.res.status,
                            text |-> ret.res.body]
           /\ IF ret.call = "text" THEN ret.kind = "Err" ELSE ret.page = "Err"

\* C28: the Kind of an error made from a close frame is not the Kind of an
\* error made from a status that is no success.
C28_KindPerCategory ==
    (ret.kind = "Err" /\ ret.source.type = "WsCloseError")
        => ret.err # Error_from(CBError_new(400, Body(400)))

\* C29: once the consumer has dropped the sequence no request is issued and
\* the sequence stays dropped; a request is issued only by the terminal call
\* that constructs (text, paginate) and by a poll of the sequence.
C29_NoRequestAfterDrop ==
    [][variant = "builder.rs"
        => /\ phase = "Dropped"
                => (nRequests' = nRequests /\ in_flight' = in_flight /\ phase' = "Dropped")
           /\ nRequests' # nRequests
                => /\ nRequests' = nRequests + 1
                   /\ \/ phase = "Builder" /\ phase' \in {"Text", "Paging"}
                      \/ phase = "Paging" /\ ret'.call = "poll_next"]_vars

\* C29 happens: the sequence was dropped with one response yielded and the
\* second request issued.
C29_Witness ==
    /\ variant = "builder.rs"
    /\ phase = "Dropped"
    /\ nRequests = 2 /\ nResponses = 1

\* C30: a setter call on the builder leaves the query state as it was
\* except for its own parameter, which holds the value of this call; before
\* also clears after, and after clears before.
C30_LastWriteWins ==
    [][(/\ variant = "builder.rs"
        /\ phase = "Builder"
        /\ setting'.name # "none"
        /\ (setting' # setting \/ builder' # builder))
            => LET q == builder.query
                   v == SomeOf(setting'.value)
               IN  /\ builder'.query.fixed = q.fixed
                   /\ CASE setting'.name = "limit" ->
                            /\ builder'.query.limit = v
                            /\ builder'.query.before = q.before
                            /\ builder'.query.after = q.after
                        [] setting'.name = "before" ->
                            /\ builder'.query.before = v
                            /\ ~builder'.query.after.some
                            /\ builder'.query.limit = q.limit
                        [] setting'.name = "after" ->
                            /\ builder'.query.after = v
                            /\ ~builder'.query.before.some
                            /\ builder'.query.limit = q.limit]_vars

\* C30 happens: the last call set the limit to 2 on a builder whose before
\* is 1 and whose after is clear.
C30_Witness ==
    /\ variant = "builder.rs" /\ phase = "Builder"
    /\ setting = Set("limit", 2)
    /\ builder.query.limit = SomeOf(2)
    /\ builder.query.before = SomeOf(1) /\ ~builder.query.after.some

\* The positions of the cursor parameters (after, before) in a request's query.
CursorParams(req) ==
    IF req.query.some
    THEN {i \in 1..Len(req.query.v) : req.query.v[i][1] \in {"after", "before"}}
    ELSE {}

\* C31: the request issued after a response was yielded carries exactly one
\* cursor parameter, after or before, and its value is the text of the
\* header of that name in the response just received.
C31_FollowUpCarriesHeader ==
    Followed =>
        /\ Cardinality(CursorParams(in_flight.req)) = 1
        /\ \A i \in CursorParams(in_flight.req) :
            LET pair == in_flight.req.query.v[i]
                header == IF pair[1] = "after" THEN ret.res.after ELSE ret.res.before
            IN  header.some /\ pair[2] = Str(header.v)

\* C32: each read takes the frame at the head of what the transport holds
\* and gives the consumer its one outcome: the text of a text or binary
\* frame, the wrapper of a ping or pong frame of an open session, an error
\* for a close frame; no other call of the session takes a frame.
C32_OneOutcomePerFrame ==
    [][variant = "websocket.rs"
        => /\ (Returns("text") /\ feed.inbox # <<>>)
                => LET frame == Head(feed.inbox)
                   IN  /\ feed'.inbox = Tail(feed.inbox)
                       /\ frame.op \in {"Text", "Binary"}
                            => (ret'.kind = "Ok" /\ feed'.msg = SomeOf(frame.data))
                       /\ (frame.op = "Ping" /\ feed.up)
                            => (ret'.kind = "Ok"
                                /\ feed'.msg = SomeOf(Wrapper("ping", frame.data)))
                       /\ (frame.op = "Pong" /\ feed.up)
                            => (ret'.kind = "Ok"
                                /\ feed'.msg = SomeOf(Wrapper("pong", frame.data)))
                       /\ frame.op = "Close"
                            => (ret'.kind = "Err" /\ ret'.source.type = "WsCloseError")
           /\ (~Returns("text") /\ ~Returns("close"))
                => (Len(feed'.inbox) >= Len(feed.inbox)
                    /\ SubSeq(feed'.inbox, 1, Len(feed.inbox)) = feed.inbox)]_vars

\* An authenticated sequence of pages has a request in flight.
AuthPaging ==
    /\ variant = "builder.rs" /\ phase = "Paging"
    /\ builder.auth.some /\ built.kind = "Ok"
    /\ in_flight.id > 0

\* C33: every request an authenticated sequence issues carries the
\* CB-ACCESS-SIGN the exchange computes over that request's own method, path
\* and query string at the timestamp of its CB-ACCESS-TIMESTAMP header.
C33_EveryRequestSigned ==
    AuthPaging =>
        LET req == in_flight.req
        IN  /\ req.headers["CB-ACCESS-TIMESTAMP"].some
            /\ req.headers["CB-ACCESS-SIGN"].some
            /\ req.headers["CB-ACCESS-SIGN"].v =
                    WireSignature(builder.auth.secret,
                        WireMessage(req, req.headers["CB-ACCESS-TIMESTAMP"].v))

\* The query pairs of a request that are no cursor parameter.
OtherPairs(req) ==
    IF req.query.some
    THEN {req.query.v[i] : i \in (1..Len(req.query.v)) \ CursorParams(req)}
    ELSE {}

\* C34: the request issued after a response was yielded holds every query
\* parameter of the first request other than before and after: those the
\* endpoint put on the URL (the status filters of list_orders) and the limit.
C34_FollowUpKeepsParameters ==
    (variant = "builder.rs" /\ Followed)
        => OtherPairs(built.request) \subseteq OtherPairs(in_flight.req)

\* The sequence was constructed with after set and before unset.
After0 ==
    IF variant = "builder.rs" THEN query0.after.some /\ ~query0.before.some
    ELSE stream.params.after.some /\ ~stream.params.before.some

\* C35: a sequence constructed with after set and before unset issues no
\* request that carries a before parameter, whatever headers the responses
\* carry.
C35_AfterLocksDirection ==
    (phase = "Paging" /\ After0) => ~HasParam(in_flight.req, "before")

\* C37: a call of before or after on a pagination builder leaves the limit
\* as it was (QueryBuilder of builder.rs and PaginateBuilder of stream.rs).
C37_CursorSettersKeepLimit ==
    [][(/\ phase = "Builder"
        /\ setting'.name \in {"before", "after"}
        /\ (setting' # setting \/ builder' # builder \/ stream' # stream))
            => /\ builder'.query.limit = builder.query.limit
               /\ stream'.params.limit = stream.params.limit]_vars

\* C38: a poll that takes a response whose status is no success yields the
\* CBError element for it; if the response carries an applicable cursor
\* header (cb-after while the query state holds no before, else cb-before)
\* the next request is issued and the engine stays in Start, otherwise the
\* engine stops.
C38_RejectedPageIsFollowed ==
    [][(/\ variant = "builder.rs" /\ phase = "Paging"
        /\ ~in_flight.done
        /\ ret'.call = "poll_next"
        /\ ret'.res.of = in_flight.id
        /\ ~is_success(ret'.res.status))
            => LET res == ret'.res
                   applicable == \/ res.after.some /\ ~paginated.query.before.some
                                 \/ res.before.some
               IN  /\ ret'.page = "Err"
                   /\ ret'.source = [type |-> "CBError", code |-> res.status,
                                     text |-> res.body]
                   /\ nErrors' = nErrors
                   /\ applicable => /\ paginated'.state = "Start"
                                    /\ nRequests' = nRequests + 1
                                    /\ in_flight'.id = in_flight.id + 1
                                    /\ ~in_flight'.done
                   /\ ~applicable => /\ paginated'.state = "Stop"
                                     /\ nRequests' = nRequests]_vars

\* A read returns having written a ping or a pong frame.
KeepAliveSent ==
    /\ Returns("text")
    /\ \E i \in 1..Len(feed'.wrote) : feed'.wrote[i].op \in {"Ping", "Pong"}

\* C36: against a peer that answers every ping with a pong, and with a
\* consumer that keeps reading, the reads of a session that held one ping or
\* pong frame write a ping or a pong frame only finitely many times.
C36_KeepAliveStops == <>[][~KeepAliveSent]_vars

====
